---- MODULE Spec2Model ----
(***************************************************************************)
(* A model of the RPA orchestrator of rpa_netflix:                         *)
(*   src/src/main.py              FullRPA (the run, the unit and link loop) *)
(*   src/src/sub/error_handler.py handle_errors (the retry decorator),      *)
(*                                ErrorRecovery (the preflight checks)      *)
(*   src/src/sub/driver_web.py    WebAutomator (open_link, click_button)    *)
(*   src/src/sub/database.py      save_record, get_next_process_id          *)
(*   src/src/sub/email_reader.py  validate_credentials, extract_links       *)
(*                                                                         *)
(* The external collaborators (the mailbox, the HTTP probe, the browser,   *)
(* the SQLite file, the clock and the random source) are environment       *)
(* choices, drawn with \E at the step that consults them.                  *)
(***************************************************************************)
EXTENDS Integers, Sequences, FiniteSets, TLC

VARIABLES
    pc,                 \* position inside process_emails_automatically
    cfg,                \* the environment variables read at import time
    automator,          \* FullRPA.automator: "None" or "WebAutomator"
    driver,             \* WebAutomator.driver: "None" or "chrome"
    last_click_result,  \* WebAutomator.last_click_result
    total_processed,    \* FullRPA.total_processed
    total_success,      \* FullRPA.total_success
    total_errors,       \* FullRPA.total_errors
    error_details,      \* FullRPA.error_details (the unit numbers reported)
    preflight_failure,  \* why _perform_preflight_checks returned False, or "none"
    fetched,            \* messages the mailbox iterator has yielded so far
    message,            \* the message being processed
    process_id,         \* the ProcessID of the unit being processed
    links,              \* extract_links(message.text) of that unit
    linkIdx,            \* 1-based position in links of the link being processed
    selIdx,             \* 1-based position in selectors_to_test of the next strategy
    pending,            \* the exception in flight ("none" when there is none)
    clock,              \* the wall clock, in seconds
    loginLog,           \* number of mailbox connections opened
    probeLog,           \* the requests.head probes sent, in order
    driverLog,          \* the WebAutomator calls that reached the driver or returned
    dbLog,              \* the save_record calls, in order, each with whether its row was stored
    dbFailures,         \* storage failures injected so far
    rpa_records,        \* the rows of table rpa_records in rpa.db, in insertion order
    cleanupLog,         \* number of times _cleanup_resources ran
    summaryLog,         \* number of times _show_summary ran
    reportLog,          \* the error reports _show_summary generated
    unitLog,            \* the units _process_single_email was called for, in order
    read_attempt,       \* the attempt index of the wrapper of _read_and_process_emails
    run_attempt,        \* the attempt index of the wrapper of process_emails_automatically
    he                  \* the handle_errors harness: the wrapped call and its result

vars == <<pc, cfg, automator, driver, last_click_result, total_processed,
          total_success, total_errors, error_details, preflight_failure, fetched,
          message, process_id, links, linkIdx, selIdx, pending, clock, loginLog,
          probeLog, driverLog, dbLog, dbFailures, rpa_records, cleanupLog, reportLog,
          summaryLog, unitLog, read_attempt, run_attempt, he>>

(***************************************************************************)
(* Bounds of the model.                                                    *)
(***************************************************************************)
MaxMessages == 2
MaxTokens == 2
MaxDbFailures == 1
MaxClock == 0
MaxRetries == 3

(***************************************************************************)
(* Program constants.                                                      *)
(***************************************************************************)
FetchLimit == 10
MinPasswordLength == 8
ErrorStatus == 400

Min(a, b) == IF a <= b THEN a ELSE b

(***************************************************************************)
(* error_handler.py: handle_errors.  An exception is <<type, detail>>.      *)
(* The wrapped function is given by a script: the outcome of each of its   *)
(* successive invocations, "return" or the type of the exception raised.   *)
(***************************************************************************)
(* Mutant of RetryExceptions: every exception is retried. *)
RetryExceptionsAll == {"RetryableError", "ConnectionError", "TimeoutError", "ValueError",
                       "DatabaseError"}

RetryExceptions == {"RetryableError", "ConnectionError", "TimeoutError"}

(* The exception the i-th invocation raises. *)
Raised(type, i) == <<type, i>>

(* wrapper assigns delay (delay *= 2) and declares it neither nonlocal nor
   global, so delay is a local variable of wrapper, unbound on entry: the
   decorator's argument is not visible inside wrapper. *)
LocalDelayAtEntry(delay) == [bound |-> FALSE, value |-> 0]

(* Mutant of OnException: every exception is retried while attempts are left. *)
OnExceptionAlwaysRetry(max_retries, attempt, type, delay) ==
    IF attempt < max_retries THEN "retry" ELSE type

(* What wrapper does with an exception of this type raised by the invocation
   of pass attempt (counted from 0) of its for loop: "retry" (sleep, double
   the delay, go round again) or the type of the exception that leaves wrapper. *)
OnException(max_retries, attempt, type, delay) ==
    IF type \in RetryExceptions
    THEN IF attempt < max_retries
         THEN IF ~delay.bound
              THEN "UnboundLocalError"  \* formatting the warning reads the unbound local
              ELSE "retry"
         ELSE type
    ELSE type

(* The for loop of wrapper, from pass attempt on.
   st = [calls, sleeps, delay]: invocations made, sleeps taken, the local delay. *)
RECURSIVE WrapperLoop(_, _, _, _)
WrapperLoop(max_retries, script, attempt, st) ==
    IF attempt > max_retries
    THEN [calls |-> st.calls, sleeps |-> st.sleeps, outcome |-> "return",
          exception |-> <<"none", 0>>]
    ELSE
      LET out == script[Min(attempt + 1, Len(script))]
          called == st.calls + 1
          todo == OnException(max_retries, attempt, out, st.delay)
      IN  IF out = "return"
          THEN [calls |-> called, sleeps |-> st.sleeps, outcome |-> "return",
                exception |-> <<"none", 0>>]
          ELSE IF todo = "retry"
          THEN WrapperLoop(max_retries, script, attempt + 1,
                   [calls |-> called,
                    sleeps |-> Append(st.sleeps, st.delay.value),
                    delay |-> [bound |-> TRUE, value |-> st.delay.value * 2]])
          ELSE [calls |-> called, sleeps |-> st.sleeps, outcome |-> "raise",
                exception |-> Raised(todo, called)]

(* handle_errors(max_retries, delay)(func)(): the result of one call of the
   wrapped function. *)
handle_errors(max_retries, delay, script) ==
    WrapperLoop(max_retries, script, 0,
                [calls |-> 0, sleeps |-> <<>>, delay |-> LocalDelayAtEntry(delay)])

(***************************************************************************)
(* Strings the code inspects are tuples of characters.                     *)
(***************************************************************************)
Unset == <<>>
Users == {Unset, <<"r", "p", "a">>, <<"r", "@", "x">>}
Passwords == {Unset, <<"p", "a", "s", "s", "w", "o", "r">>,
              <<"p", "a", "s", "s", "w", "o", "r", "d">>}
Servers == {Unset, <<"i", "m", "a", "p">>}
Filters == {Unset, <<"n", "f">>}
Senders == {<<"N", "F">>, <<"x">>}

Lower(s) == [i \in 1..Len(s) |-> IF s[i] = "N" THEN "n" ELSE IF s[i] = "F" THEN "f" ELSE s[i]]
Contains(sub, s) == \E i \in 1..(Len(s) + 1) :
                        /\ i + Len(sub) - 1 <= Len(s)
                        /\ SubSeq(s, i, i + Len(sub) - 1) = sub
Truthy(s) == s # Unset

(***************************************************************************)
(* error_handler.py: ErrorRecovery.                                        *)
(***************************************************************************)
SystemStates == {"ok", "low_memory", "low_disk", "no_psutil", "psutil_error"}

check_system_resources(sys) == sys \in {"ok", "no_psutil"}

(* Mutant of validate_email_credentials: the password length is not checked. *)
validate_email_credentials_any_length(email_user, email_password, imap_server) ==
    /\ Truthy(email_user) /\ Truthy(email_password) /\ Truthy(imap_server)
    /\ \E i \in 1..Len(email_user) : email_user[i] = "@"

validate_email_credentials(email_user, email_password, imap_server) ==
    /\ Truthy(email_user) /\ Truthy(email_password) /\ Truthy(imap_server)
    /\ \E i \in 1..Len(email_user) : email_user[i] = "@"
    /\ ~(Len(email_password) < MinPasswordLength)

(* main.py: _perform_preflight_checks; "none" when the checks pass. *)
perform_preflight_checks(sys, c) ==
    IF ~check_system_resources(sys) THEN "resources"
    ELSE IF ~validate_email_credentials(c.EMAIL_USER, c.EMAIL_PASSWORD, c.IMAP_SERVER)
    THEN "credentials"
    ELSE "none"

(* email_reader.py: validate_credentials, under its handle_errors(2, 1.0). *)
validate_credentials(c) ==
    handle_errors(2, 1,
        IF ~Truthy(c.EMAIL_USER) \/ ~Truthy(c.EMAIL_PASSWORD) \/ ~Truthy(c.IMAP_SERVER)
        THEN <<"ConfigurationError">> ELSE <<"return">>)

(***************************************************************************)
(* email_reader.py: extract_links.  A text is a sequence of whitespace-    *)
(* separated tokens; the default pattern https?://[^\s]+ keeps the tokens  *)
(* that are URLs, in order, duplicates included.                           *)
(***************************************************************************)
UrlA == "https://a.test/x"
UrlBad == "https://bad.test"
Urls == {UrlA, UrlBad}
Tokens == Urls \cup {"word"}
Texts == UNION {[1..n -> Tokens] : n \in 0..MaxTokens}

extract_links(text) == SelectSeq(text, LAMBDA tok : tok \in Urls)

(***************************************************************************)
(* database.py: get_next_process_id and save_record.                       *)
(***************************************************************************)
UuidPrefixes == {"0a", "1b"}

(* RPA_<timestamp>_<first 8 hex digits of a uuid4> *)
get_next_process_id(now, uuid) == <<"RPA", now, uuid>>

NoProcessId == <<"RPA", 0, "none">>

(* The outcome of each INSERT attempt: "return", or "DatabaseError" (the
   except of save_record turns every exception into DatabaseError). *)
StorageScripts == {<<"return">>, <<"DatabaseError", "return">>,
                   <<"DatabaseError", "DatabaseError", "DatabaseError", "DatabaseError">>}

save_record(script) == handle_errors(3, 1, script)

(* main.py: _register_email_result and _register_general_error: one
   save_record call; an exception of save_record is logged and swallowed.
   The entry records the row, how often the INSERT was attempted and
   whether the row is in the table; unit and link say which message (by
   its number, 0 for none) and which of its links (0 for none) it is about. *)
Record(row, unit, link, script) ==
    LET r == save_record(script)
    IN  [row |-> row, unit |-> unit, link |-> link, script |-> script,
         attempts |-> r.calls, stored |-> r.outcome = "return"]

(* Mutant of insert: a row replaces the rows of the same URL. *)
insert_or_replace(table, row) ==
    Append(SelectSeq(table, LAMBDA old : old.extracted_url # row.extracted_url), row)

(* Mutant of insert: the new row is put before the rows already there. *)
insert_first(table, row) == <<row>> \o table

(* database.py: the INSERT INTO rpa_records and the commit of save_record. *)
insert(table, row) == Append(table, row)

(* An empty detailed_error. *)
NoDetail == <<"", 0>>

(* The columns of rpa_records the model keeps (datetime, subject and
   message_content are left out). *)
Row(sender, url, status, detailed_error, final_result, pid) ==
    [sender |-> sender, extracted_url |-> url, status |-> status,
     detailed_error |-> detailed_error, final_result |-> final_result,
     process_id |-> pid]

(***************************************************************************)
(* driver_web.py: WebAutomator.                                            *)
(***************************************************************************)
NewClickResult == [success |-> FALSE, observations |-> <<"", "">>]

SelectorTypes == {"xpath", "css", "id", "class", "tag"}
SELECTOR_TYPE == "xpath"

(* main.py: selectors_to_test of _attempt_button_clicks. *)
selectors_to_test == <<"//button[action word]", "//a[action word]", "//button",
                       "//a[hash or javascript href]", "BUTTON_SELECTOR">>

(* Mutant of open_link: the page is requested whether or not a driver is set. *)
open_link_any_driver(drv, found) == [result |-> found, reached |-> TRUE]

(* open_link(url): found says whether driver.get(url) returned (it raised
   otherwise).  The result, and whether the driver was reached. *)
open_link(drv, found) ==
    IF drv = "None" THEN [result |-> FALSE, reached |-> FALSE]
    ELSE [result |-> found, reached |-> TRUE]

(* Mutant of click_button: the except clause returns False and leaves
   last_click_result as the call before it set it. *)
click_button_stale(drv, selector, selector_type, clicked) ==
    IF drv = "None"
    THEN [result |-> FALSE,
          last |-> [success |-> FALSE, observations |-> <<"No browser open", "">>]]
    ELSE IF selector_type \notin SelectorTypes
    THEN [result |-> FALSE,
          last |-> [success |-> FALSE, observations |-> <<"Invalid selector", selector_type>>]]
    ELSE IF clicked
    THEN [result |-> TRUE,
          last |-> [success |-> TRUE, observations |-> <<"Click successful on", selector>>]]
    ELSE [result |-> FALSE, last |-> last_click_result]

(* click_button(selector, selector_type, description): clicked says whether
   the element became clickable and the click returned. *)
click_button(drv, selector, selector_type, clicked) ==
    IF drv = "None"
    THEN [result |-> FALSE,
          last |-> [success |-> FALSE, observations |-> <<"No browser open", "">>]]
    ELSE IF selector_type \notin SelectorTypes
    THEN [result |-> FALSE,
          last |-> [success |-> FALSE, observations |-> <<"Invalid selector", selector_type>>]]
    ELSE IF clicked
    THEN [result |-> TRUE,
          last |-> [success |-> TRUE, observations |-> <<"Click successful on", selector>>]]
    ELSE [result |-> FALSE,
          last |-> [success |-> FALSE, observations |-> <<"Click error", "">>]]

(***************************************************************************)
(* The run: FullRPA() and then process_emails_automatically().             *)
(***************************************************************************)
NoMessage == [from_ |-> <<>>, number |-> 0]
NoException == <<"none", 0>>
HeIdle == [state |-> "idle", max_retries |-> 0, delay |-> 0, script |-> <<>>,
           result |-> [calls |-> 0, sleeps |-> <<>>, outcome |-> "return",
                       exception |-> NoException]]

Configs == [EMAIL_USER : Users, EMAIL_PASSWORD : Passwords, IMAP_SERVER : Servers,
            SENDER_FILTER : Filters]

(* FullRPA.__init__ *)
InitRPA ==
    /\ automator = "None"
    /\ driver = "None"
    /\ last_click_result = NewClickResult
    /\ total_processed = 0
    /\ total_success = 0
    /\ total_errors = 0
    /\ error_details = <<>>
    /\ preflight_failure = "none"
    /\ fetched = 0
    /\ message = NoMessage
    /\ process_id = NoProcessId
    /\ links = <<>>
    /\ linkIdx = 0
    /\ selIdx = 0
    /\ pending = NoException
    /\ clock = 0
    /\ loginLog = 0
    /\ probeLog = <<>>
    /\ driverLog = <<>>
    /\ dbLog = <<>>
    /\ dbFailures = 0
    /\ rpa_records = <<>>
    /\ cleanupLog = 0
    /\ reportLog = <<>>
    /\ summaryLog = 0
    /\ unitLog = <<>>
    /\ read_attempt = 0
    /\ run_attempt = 0

Init ==
    /\ InitRPA
    /\ pc = "start"
    /\ cfg \in Configs
    /\ he = HeIdle

(* The storage outcomes the environment may still choose. *)
StorageChoices == IF dbFailures < MaxDbFailures THEN StorageScripts ELSE {<<"return">>}
Failed(script) == IF script[1] = "return" THEN 0 ELSE 1

(* The times the clock may show at the next reading. *)
ClockChoices == {t \in {clock, clock + 1} : t <= MaxClock}

(* Mutant of AfterRaise: no finally clause, a KeyboardInterrupt leaves at once. *)
AfterRaiseNoFinally(type) == IF type = "KeyboardInterrupt" THEN "done" ELSE "except"

(* Mutant of AfterRaise: the try has a finally clause only, no except clause. *)
AfterRaiseNoExcept(type) == "cleanup"

(* The pc after a raise inside the try of process_emails_automatically:
   its except clause for Exception; KeyboardInterrupt is no Exception and
   goes to the finally clause directly. *)
AfterRaise(type) == IF type = "KeyboardInterrupt" THEN "cleanup" ELSE "except"

(* Mutant of AfterReturn: the return leaves out _cleanup_resources. *)
AfterReturnToSummary == "summary"

(* The pc after the body of the try returned. *)
AfterReturn == "cleanup"

(* main.py: _perform_preflight_checks and the early return. *)
PreflightChecks ==
    /\ pc = "start"
    /\ \E sys \in SystemStates :
         LET failure == perform_preflight_checks(sys, cfg)
         IN  /\ preflight_failure' = failure
             /\ pc' = IF failure = "none" THEN "components" ELSE AfterReturn
    /\ UNCHANGED <<cfg, automator, driver, last_click_result, total_processed,
                   total_success, total_errors, error_details, fetched, message,
                   process_id, links, linkIdx, selIdx, pending, clock, loginLog,
                   probeLog, driverLog, dbLog, dbFailures, rpa_records, cleanupLog, reportLog, summaryLog,
                   read_attempt, he, run_attempt, unitLog>>

(* main.py: _initialize_components.  constructed says whether
   WebAutomator(headless) returned; configure_browser is not called. *)
InitializeComponents ==
    /\ pc = "components"
    /\ \E constructed \in BOOLEAN :
         LET v == validate_credentials(cfg)
         IN  IF v.outcome = "raise"
             THEN /\ pending' = v.exception
                  /\ pc' = AfterRaise(v.exception[1])
                  /\ UNCHANGED <<automator, driver, last_click_result>>
             ELSE IF ~constructed
             THEN /\ pending' = <<"Exception", 0>>
                  /\ pc' = AfterRaise("Exception")
                  /\ UNCHANGED <<automator, driver, last_click_result>>
             ELSE /\ automator' = "WebAutomator"
                  /\ driver' = "None"
                  /\ last_click_result' = NewClickResult
                  /\ pc' = "login"
                  /\ UNCHANGED pending
    /\ UNCHANGED <<cfg, total_processed, total_success, total_errors, error_details,
                   preflight_failure, fetched, message, process_id, links, linkIdx,
                   selIdx, clock, loginLog, probeLog, driverLog, dbLog, dbFailures, rpa_records,
                   cleanupLog, reportLog, summaryLog, read_attempt, he, run_attempt, unitLog>>

(* An exception inside the try of _read_and_process_emails: its except turns
   it into EmailConnectionError, which meets the handle_errors(2, 1.0) of
   _read_and_process_emails. *)
ReadFailure ==
    LET todo == OnException(2, read_attempt, "EmailConnectionError", LocalDelayAtEntry(1))
    IN  IF todo = "retry"
        THEN /\ read_attempt' = read_attempt + 1
             /\ pc' = "login"
             /\ UNCHANGED pending
        ELSE /\ pending' = <<todo, read_attempt + 1>>
             /\ pc' = AfterRaise(todo)
             /\ UNCHANGED read_attempt

(* main.py: MailBox(server).login(user, password) of _read_and_process_emails. *)
MailboxLogin ==
    /\ pc = "login"
    /\ loginLog' = loginLog + 1
    /\ \E connected \in BOOLEAN :
         IF connected
         THEN pc' = "fetch" /\ UNCHANGED <<pending, read_attempt>>
         ELSE ReadFailure
    /\ UNCHANGED <<cfg, automator, driver, last_click_result, total_processed,
                   total_success, total_errors, error_details, preflight_failure,
                   fetched, message, process_id, links, linkIdx, selIdx, clock,
                   probeLog, driverLog, dbLog, dbFailures, rpa_records, cleanupLog, reportLog, summaryLog, he, run_attempt, unitLog>>

(* Mutant of PassesFilter: the test of SENDER_FILTER itself is left out, and
   the empty string occurs in every sender. *)
PassesFilterUntested(sender_filter, from_) ==
    Contains(Lower(sender_filter), Lower(from_))

(* main.py: the sender filter of the message loop. *)
PassesFilter(sender_filter, from_) ==
    Truthy(sender_filter) /\ Contains(Lower(sender_filter), Lower(from_))

(* main.py: one pass of the for loop over mailbox.fetch(..., limit=10): the
   iterator yields a message, ends, or raises. *)
FetchMessage ==
    /\ pc = "fetch"
    /\ \/ /\ fetched < Min(MaxMessages, FetchLimit)
          /\ \E from_ \in Senders :
               /\ fetched' = fetched + 1
               /\ IF PassesFilter(cfg.SENDER_FILTER, from_)
                  THEN /\ message' = [from_ |-> from_, number |-> fetched + 1]
                       /\ pc' = "email"
                  ELSE UNCHANGED <<message, pc>>
          /\ UNCHANGED <<pending, read_attempt>>
       \/ /\ pc' = AfterReturn
          /\ UNCHANGED <<fetched, message, pending, read_attempt>>
       \/ /\ ReadFailure
          /\ UNCHANGED <<fetched, message>>
    /\ UNCHANGED <<cfg, automator, driver, last_click_result, total_processed,
                   total_success, total_errors, error_details, preflight_failure,
                   process_id, links, linkIdx, selIdx, clock, loginLog, probeLog,
                   driverLog, dbLog, dbFailures, rpa_records, cleanupLog, reportLog, summaryLog, he, run_attempt, unitLog>>

(* One save_record call through _register_email_result or
   _register_general_error; the environment chooses how the INSERTs fare. *)
SaveRow(row, unit, link) ==
    \E script \in StorageChoices :
        LET r == Record(row, unit, link, script)
        IN  /\ dbLog' = Append(dbLog, r)
            /\ rpa_records' = IF r.stored THEN insert(rpa_records, row) ELSE rpa_records
            /\ dbFailures' = dbFailures + Failed(script)

(* _process_single_email returns to the message loop; its locals are gone. *)
ReturnToLoop ==
    /\ pc' = "fetch"
    /\ message' = NoMessage
    /\ process_id' = NoProcessId
    /\ links' = <<>>
    /\ linkIdx' = 0

(* Mutant of NextLink: a record that could not be stored ends the run's loop. *)
NextLinkUnlessLost ==
    IF ~dbLog'[Len(dbLog')].stored
    THEN /\ pc' = "except"
         /\ UNCHANGED <<message, process_id, links, linkIdx>>
    ELSE IF linkIdx < Len(links)
    THEN /\ linkIdx' = linkIdx + 1
         /\ pc' = "probe"
         /\ UNCHANGED <<message, process_id, links>>
    ELSE ReturnToLoop

(* Mutant of NextLink: a link whose probe failed is visited once more, as a
   retry of _process_url would do. *)
NextLinkRepeats ==
    IF Len(SelectSeq(probeLog, LAMBDA q : q.unit = message.number /\ q.link = linkIdx)) < 1
    THEN /\ pc' = "probe"
         /\ UNCHANGED <<message, process_id, links, linkIdx>>
    ELSE IF linkIdx < Len(links)
    THEN /\ linkIdx' = linkIdx + 1
         /\ pc' = "probe"
         /\ UNCHANGED <<message, process_id, links>>
    ELSE ReturnToLoop

(* The for loop over links of _process_single_email moves on. *)
NextLink ==
    IF linkIdx < Len(links)
    THEN /\ linkIdx' = linkIdx + 1
         /\ pc' = "probe"
         /\ UNCHANGED <<message, process_id, links>>
    ELSE ReturnToLoop

(* Mutant of NoLinksStatus: the unit without links is recorded as a success. *)
NoLinksStatusSuccess == "Success"

(* Mutant of UnitErrorStatus: the except clause writes its final_result as status. *)
UnitErrorStatusAsResult == "Processing failed"

(* The status and final_result _process_single_email records for a unit
   without links, and those of its except clause. *)
NoLinksStatus == "No links found"
NoLinksResult == "No links"
UnitErrorStatus == "Error"

(* main.py: _process_single_email up to the first link.  raises says whether
   extract_links raised (the except clause of _process_single_email). *)
ProcessSingleEmail ==
    /\ pc = "email"
    /\ \E now \in ClockChoices, uuid \in UuidPrefixes, text \in Texts, raises \in BOOLEAN :
         LET pid == get_next_process_id(now, uuid)
             found == extract_links(text)
         IN  /\ clock' = now
             /\ unitLog' = Append(unitLog,
                    [unit |-> message.number, process_id |-> pid, raised |-> raises,
                     links |-> IF raises THEN <<>> ELSE found])
             /\ IF raises
                THEN /\ SaveRow(Row(message.from_, "", UnitErrorStatus,
                                        <<"Exception", 0>>, "Processing failed", pid),
                                message.number, 0)
                     /\ total_errors' = total_errors + 1
                     /\ error_details' = Append(error_details, message.number)
                     /\ ReturnToLoop
                ELSE IF found = <<>>
                THEN /\ SaveRow(Row(message.from_, "", NoLinksStatus,
                                        NoDetail, NoLinksResult, pid),
                                message.number, 0)
                     /\ ReturnToLoop
                     /\ UNCHANGED <<total_errors, error_details>>
                ELSE /\ process_id' = pid
                     /\ links' = found
                     /\ linkIdx' = 1
                     /\ pc' = "probe"
                     /\ UNCHANGED <<message, total_errors, error_details, dbLog, dbFailures, rpa_records>>
    /\ UNCHANGED <<cfg, automator, driver, last_click_result, total_processed,
                   total_success, preflight_failure, fetched, selIdx, pending,
                   loginLog, probeLog, driverLog, cleanupLog, reportLog, summaryLog,
                   read_attempt, he, run_attempt>>

(***************************************************************************)
(* main.py: _process_url, under its handle_errors(2, 1.0): every exception *)
(* of its try is caught by its own except, so the wrapper sees a return.   *)
(***************************************************************************)
StatusCodes == {200, 404}
ProbeResults == {<<"status", c>> : c \in StatusCodes} \cup {<<"raises", 0>>}

(* str(e) of the WebAutomationError or requests exception of a failed probe. *)
ProbeError(probe) ==
    IF probe[1] = "status" THEN <<"URL returned status code", probe[2]>>
    ELSE <<"RequestException", 0>>

(* Mutant of Reachable: only the 2xx codes let _process_url go on. *)
ReachableOnly2xx(probe) == probe[1] = "status" /\ probe[2] >= 200 /\ probe[2] < 300

(* Whether requests.head let _process_url go on to the automator. *)
Reachable(probe) == probe[1] = "status" /\ ~(probe[2] >= ErrorStatus)

(* The status column _process_url writes in its except clause, and the one
   it writes after the page was opened. *)
UrlErrorStatus == "Error"
UrlOpenedStatus == "Success"

(* final_result of a link whose page was opened. *)
FinalResult(click_success) == IF click_success THEN "Success" ELSE "Partial success"

(* Mutant of UrlError: the failure ends the unit's link loop. *)
UrlErrorAborts(detail) ==
    /\ SaveRow(Row(message.from_, links[linkIdx], UrlErrorStatus,
                   detail, "URL processing failed", process_id),
               message.number, linkIdx)
    /\ total_errors' = total_errors + 1
    /\ UNCHANGED total_success
    /\ ReturnToLoop

(* Mutant of UrlError: the failure is counted as a success. *)
UrlErrorCountsSuccess(detail) ==
    /\ SaveRow(Row(message.from_, links[linkIdx], UrlErrorStatus,
                   detail, "URL processing failed", process_id),
               message.number, linkIdx)
    /\ total_success' = total_success + 1
    /\ UNCHANGED total_errors
    /\ NextLink

(* The except clause of _process_url: one record, one more error. *)
UrlError(detail) ==
    /\ SaveRow(Row(message.from_, links[linkIdx], UrlErrorStatus,
                   detail, "URL processing failed", process_id),
               message.number, linkIdx)
    /\ total_errors' = total_errors + 1
    /\ UNCHANGED total_success
    /\ NextLink

(* Mutant of UrlOpened: the record is written, the success is not counted. *)
UrlOpenedUncounted(click_success) ==
    /\ SaveRow(Row(message.from_, links[linkIdx], UrlOpenedStatus,
                   NoDetail, FinalResult(click_success), process_id),
               message.number, linkIdx)
    /\ UNCHANGED total_success
    /\ NextLink

(* The end of the try of _process_url: one record, one more success. *)
UrlOpened(click_success) ==
    /\ SaveRow(Row(message.from_, links[linkIdx], UrlOpenedStatus,
                   NoDetail, FinalResult(click_success), process_id),
               message.number, linkIdx)
    /\ total_success' = total_success + 1
    /\ NextLink

(* requests.head(url, timeout=10) and the status check, the answer of the
   server drawn from results. *)
ValidateUrlWith(results) ==
    /\ pc = "probe"
    /\ \E probe \in results :
         /\ probeLog' = Append(probeLog, [unit |-> message.number, link |-> linkIdx,
                                          url |-> links[linkIdx], result |-> probe])
         /\ IF Reachable(probe)
            THEN /\ pc' = "open"
                 /\ UNCHANGED <<message, process_id, links, linkIdx, total_errors,
                                total_success, dbLog, dbFailures, rpa_records>>
            ELSE UrlError(ProbeError(probe))
    /\ UNCHANGED <<cfg, automator, driver, last_click_result, total_processed,
                   error_details, preflight_failure, fetched, selIdx,
                   pending, clock, loginLog, driverLog, cleanupLog, reportLog, summaryLog,
                   read_attempt, he, run_attempt, unitLog>>

ValidateUrl == ValidateUrlWith(ProbeResults)

(* self.automator.open_link(url), under its handle_errors(2, 1.0): open_link
   catches every exception itself and returns False. *)
OpenLink ==
    /\ pc = "open"
    /\ IF automator = "None"
       THEN /\ UrlError(<<"Web automator not initialized", 0>>)
            /\ UNCHANGED <<driverLog, selIdx>>
       ELSE \E found \in BOOLEAN :
              LET o == open_link(driver, found)
              IN  /\ driverLog' = Append(driverLog,
                         [call |-> "open_link", unit |-> message.number, link |-> linkIdx,
                          arg |-> links[linkIdx], reached |-> o.reached,
                          result |-> o.result])
                  /\ IF o.result
                     THEN /\ pc' = "click"
                          /\ selIdx' = 1
                          /\ UNCHANGED <<message, process_id, links, linkIdx,
                                         total_errors, total_success, dbLog,
                                         dbFailures, rpa_records>>
                     ELSE /\ UrlError(<<"Failed to open URL", 0>>)
                          /\ UNCHANGED selIdx
    /\ UNCHANGED <<cfg, automator, driver, last_click_result, total_processed,
                   error_details, preflight_failure, fetched,
                   pending, clock, loginLog, probeLog, cleanupLog, reportLog, summaryLog,
                   read_attempt, he, run_attempt, unitLog>>

(* Mutant of ChainStep: the loop does not return on the first success. *)
ChainStepNoShortCircuit(result, idx) ==
    IF idx < 5 THEN "next"
    ELSE IF result THEN "succeeded"
    ELSE "exhausted"

(* What the for loop of _attempt_button_clicks does after click_button
   returned result for the idx-th selector: return True, go on to the next
   selector, or fall out of the loop and return False. *)
ChainStep(result, idx) ==
    IF result THEN "succeeded"
    ELSE IF idx < Len(selectors_to_test) THEN "next"
    ELSE "exhausted"

(* One pass of the for loop of _attempt_button_clicks: click_button on the
   next selector (under its handle_errors(2, 1.0); click_button catches
   every exception itself), then the rest of _process_url when the chain ends. *)
ClickButton ==
    /\ pc = "click"
    /\ \E clicked \in BOOLEAN :
         LET c == click_button(driver, selectors_to_test[selIdx], SELECTOR_TYPE, clicked)
         IN  /\ driverLog' = Append(driverLog,
                    [call |-> "click_button", unit |-> message.number, link |-> linkIdx,
                     arg |-> selectors_to_test[selIdx], reached |-> driver # "None",
                     result |-> c.result])
             /\ last_click_result' = c.last
             /\ IF ChainStep(c.result, selIdx) = "succeeded"
                THEN /\ UrlOpened(TRUE)
                     /\ selIdx' = 0
                ELSE IF ChainStep(c.result, selIdx) = "next"
                THEN /\ selIdx' = selIdx + 1
                     /\ UNCHANGED <<pc, message, process_id, links, linkIdx,
                                    total_success, dbLog, dbFailures, rpa_records>>
                ELSE /\ UrlOpened(FALSE)
                     /\ selIdx' = 0
    /\ UNCHANGED <<cfg, automator, driver, total_processed, total_errors,
                   error_details, preflight_failure, fetched, pending, clock,
                   loginLog, probeLog, cleanupLog, reportLog, summaryLog, read_attempt, he, run_attempt, unitLog>>

(* main.py: the except clause of process_emails_automatically, with
   _register_general_error. *)
RegisterGeneralError ==
    /\ pc = "except"
    /\ \E now \in ClockChoices, uuid \in UuidPrefixes :
         /\ clock' = now
         /\ SaveRow(Row(<<"SYSTEM">>, "", "Error", <<"System error", 0>>,
                        "General failure", get_next_process_id(now, uuid)), 0, 0)
    /\ pending' = NoException
    /\ pc' = "cleanup"
    /\ UNCHANGED <<cfg, automator, driver, last_click_result, total_processed,
                   total_success, total_errors, error_details, preflight_failure,
                   fetched, message, process_id, links, linkIdx, selIdx, loginLog,
                   probeLog, driverLog, cleanupLog, reportLog, summaryLog, read_attempt, he, run_attempt, unitLog>>

(* driver_web.py: close_browser; quit says whether driver.quit() returned. *)
close_browser(drv, quit) == IF drv # "None" /\ quit THEN "None" ELSE drv

(* main.py: _cleanup_resources, first statement of the finally clause. *)
CleanupResources ==
    /\ pc = "cleanup"
    /\ cleanupLog' = cleanupLog + 1
    /\ IF automator # "None"
       THEN \E quit \in BOOLEAN : driver' = close_browser(driver, quit)
       ELSE UNCHANGED driver
    /\ pc' = "summary"
    /\ UNCHANGED <<cfg, automator, last_click_result, total_processed, total_success,
                   total_errors, error_details, preflight_failure, fetched, message,
                   process_id, links, linkIdx, selIdx, pending, clock, loginLog,
                   probeLog, driverLog, dbLog, dbFailures, rpa_records, summaryLog,
                   reportLog, read_attempt, he, run_attempt, unitLog>>

(* The quotient total_success / total_processed * 100 of _show_summary and
   of log_system_status: Python raises ZeroDivisionError for a zero divisor. *)
success_rate(success, processed) ==
    IF processed = 0 THEN [raised |-> TRUE, value |-> 0]
    ELSE [raised |-> FALSE, value |-> (success * 100) \div processed]

(* Mutant of show_summary: the rate is computed whatever total_processed is. *)
show_summary_unguarded(processed, success) ==
    IF success_rate(success, processed).raised THEN "ZeroDivisionError" ELSE "return"

(* main.py: _show_summary with logger.py: log_system_status; both compute
   the rate only if total_processed > 0. *)
show_summary(processed, success) ==
    LET shown == IF processed > 0 THEN success_rate(success, processed)
                 ELSE [raised |-> FALSE, value |-> 0]
        logged == IF processed > 0 THEN success_rate(success, processed)
                  ELSE [raised |-> FALSE, value |-> 0]
    IN  IF shown.raised \/ logged.raised THEN "ZeroDivisionError" ELSE "return"

(* error_handler.py: create_error_report; the header carries the total, one
   block follows for each entry of error_details. *)
create_error_report(total, details) == [total |-> total, entries |-> details]

(* Mutant of error_report: the report is generated whenever an error was counted. *)
error_report_if_counted(total, details) ==
    IF total > 0 THEN <<create_error_report(total, details)>> ELSE <<>>

(* main.py: the end of _show_summary: the reports it generates, one if
   error_details is not empty. *)
error_report(total, details) ==
    IF details # <<>> THEN <<create_error_report(total, details)>> ELSE <<>>

(* main.py: _show_summary, second statement of the finally clause; then
   process_emails_automatically returns, or the exception in flight leaves
   it and meets its handle_errors(3, 2.0). *)
ShowSummary ==
    /\ pc = "summary"
    /\ LET outcome == show_summary(total_processed, total_success)
           leaving == IF outcome = "return" THEN pending ELSE <<outcome, 0>>
           todo == OnException(3, run_attempt, leaving[1], LocalDelayAtEntry(2))
       IN  /\ summaryLog' = IF outcome = "return" THEN summaryLog + 1 ELSE summaryLog
           /\ reportLog' = IF outcome = "return"
                          THEN reportLog \o error_report(total_errors, error_details)
                          ELSE reportLog
           /\ IF leaving = NoException
              THEN pc' = "done" /\ UNCHANGED <<pending, run_attempt>>
              ELSE IF todo = "retry"
              THEN /\ pc' = "start"
                   /\ run_attempt' = run_attempt + 1
                   /\ pending' = NoException
              ELSE /\ pc' = "done"
                   /\ pending' = <<todo, leaving[2]>>
                   /\ UNCHANGED run_attempt
    /\ UNCHANGED <<cfg, automator, driver, last_click_result, total_processed,
                   total_success, total_errors, error_details, preflight_failure,
                   fetched, message, process_id, links, linkIdx, selIdx,
                   clock, loginLog, probeLog, driverLog, dbLog, dbFailures, rpa_records,
                   cleanupLog, read_attempt, he, unitLog>>

(* The positions inside the try of process_emails_automatically at which
   the model delivers a KeyboardInterrupt. *)
InterruptiblePcs == {"login", "fetch", "email", "probe", "open", "click"}

(* Ctrl+C while the body of the try runs: no except clause on the way out
   catches it (each catches Exception), the finally clause runs. *)
Interrupt ==
    /\ pc \in InterruptiblePcs
    /\ pending' = <<"KeyboardInterrupt", 0>>
    /\ pc' = AfterRaise("KeyboardInterrupt")
    /\ UNCHANGED <<cfg, automator, driver, last_click_result, total_processed,
                   total_success, total_errors, error_details, preflight_failure,
                   fetched, message, process_id, links, linkIdx, selIdx, clock,
                   loginLog, probeLog, driverLog, dbLog, dbFailures, rpa_records, cleanupLog, reportLog,
                   summaryLog, read_attempt, he, run_attempt, unitLog>>

(* The program as it is.  _initialize_components never calls
   configure_browser, so open_link never returns True and pc = "click" is
   not reached: ClickButton is no step of this specification. *)
Next ==
    \/ PreflightChecks
    \/ InitializeComponents
    \/ MailboxLogin
    \/ FetchMessage
    \/ ProcessSingleEmail
    \/ ValidateUrl
    \/ OpenLink
    \/ RegisterGeneralError
    \/ CleanupResources
    \/ ShowSummary
    \/ Interrupt

Spec == Init /\ [][Next]_vars

(***************************************************************************)
(* The message loop at its last message (the earlier ones did not pass the *)
(* sender filter), with an automator whose configure_browser has been      *)
(* called (driver_web.py, as in its __main__ block): the browser is there, *)
(* or Chrome could not be started and driver is still None.                *)
(***************************************************************************)
(* What rpa.db may hold from an earlier run: nothing, or a row for the
   same URL under that run's process ID. *)
PriorRow == Row(<<"N", "F">>, UrlA, "Success", NoDetail, "Success",
                get_next_process_id(0, "0a"))
PriorTables == {<<>>, <<PriorRow>>}

InitDriver ==
    /\ pc = "fetch"
    /\ cfg = [EMAIL_USER |-> <<"r", "@", "x">>,
              EMAIL_PASSWORD |-> <<"p", "a", "s", "s", "w", "o", "r", "d">>,
              IMAP_SERVER |-> <<"i", "m", "a", "p">>,
              SENDER_FILTER |-> <<"n", "f">>]
    /\ automator = "WebAutomator"
    /\ driver \in {"None", "chrome"}
    /\ last_click_result = NewClickResult
    /\ total_processed = 0
    /\ total_success = 0
    /\ total_errors = 0
    /\ error_details = <<>>
    /\ preflight_failure = "none"
    /\ fetched = MaxMessages - 1
    /\ message = NoMessage
    /\ process_id = NoProcessId
    /\ links = <<>>
    /\ linkIdx = 0
    /\ selIdx = 0
    /\ pending = NoException
    /\ clock = 0
    /\ loginLog = 1
    /\ probeLog = <<>>
    /\ driverLog = <<>>
    /\ dbLog = <<>>
    /\ dbFailures = 0
    /\ rpa_records \in PriorTables
    /\ cleanupLog = 0
    /\ reportLog = <<>>
    /\ summaryLog = 0
    /\ unitLog = <<>>
    /\ read_attempt = 0
    /\ run_attempt = 0
    /\ he = HeIdle

NextDriver ==
    \/ FetchMessage
    \/ ProcessSingleEmail
    \/ ValidateUrl
    \/ OpenLink
    \/ ClickButton
    \/ RegisterGeneralError
    \/ CleanupResources
    \/ ShowSummary
    \/ Interrupt

SpecDriver == InitDriver /\ [][NextDriver]_vars

(***************************************************************************)
(* The same unit, with servers that answer the probe with codes of every   *)
(* class (requests.head does not follow redirects, so a 3xx code is what   *)
(* _process_url sees); no Ctrl+C, and an empty table.                      *)
(***************************************************************************)
WideStatusCodes == {100, 200, 301, 399, 400, 404, 500}
WideProbeResults == {<<"status", c>> : c \in WideStatusCodes} \cup {<<"raises", 0>>}

ValidateUrlWide == ValidateUrlWith(WideProbeResults)

NextProbe ==
    \/ FetchMessage
    \/ ProcessSingleEmail
    \/ ValidateUrlWide
    \/ OpenLink
    \/ ClickButton
    \/ RegisterGeneralError
    \/ CleanupResources
    \/ ShowSummary

(* rpa.db is new. *)
InitProbe == InitDriver /\ rpa_records = <<>>

SpecProbe == InitProbe /\ [][NextProbe]_vars

(***************************************************************************)
(* handle_errors on its own: one call of a function wrapped with           *)
(* handle_errors(max_retries, delay), the function given by its script.    *)
(***************************************************************************)
Outcomes == RetryExceptions \cup {"return", "ValueError"}
Delays == {1, 2}

InitRetry ==
    /\ InitRPA
    /\ pc = "wrapped"
    /\ cfg = [EMAIL_USER |-> Unset, EMAIL_PASSWORD |-> Unset, IMAP_SERVER |-> Unset,
              SENDER_FILTER |-> Unset]
    /\ \E r \in 0..MaxRetries, d \in Delays :
         \E script \in [1..(r + 1) -> Outcomes] :
            he = [HeIdle EXCEPT !.state = "ready", !.max_retries = r, !.delay = d,
                                !.script = script]

(* The call of the wrapped function, to its return or raise. *)
CallWrapped ==
    /\ pc = "wrapped"
    /\ he.state = "ready"
    /\ he' = [he EXCEPT !.state = "done",
                        !.result = handle_errors(he.max_retries, he.delay, he.script)]
    /\ UNCHANGED <<pc, cfg, automator, driver, last_click_result, total_processed,
                   total_success, total_errors, error_details, preflight_failure,
                   fetched, message, process_id, links, linkIdx, selIdx, pending,
                   clock, loginLog, probeLog, driverLog, dbLog, dbFailures, rpa_records,
                   cleanupLog, reportLog, summaryLog, unitLog, read_attempt, run_attempt>>

NextRetry == CallWrapped

SpecRetry == InitRetry /\ [][NextRetry]_vars

(***************************************************************************)
(* Reading the logs.                                                       *)
(***************************************************************************)
Last(seq) == seq[Len(seq)]

(* The save_record calls about link l of unit u (l = 0: about the unit). *)
Entries(u, l) == SelectSeq(dbLog, LAMBDA e : e.unit = u /\ e.link = l)

(* The save_record calls about unit u. *)
UnitEntries(u) == SelectSeq(dbLog, LAMBDA e : e.unit = u)

(* The save_record calls about links, in order. *)
LinkEntries == SelectSeq(dbLog, LAMBDA e : e.link # 0)

(* The WebAutomator calls made for link l of unit u, and its click_button calls. *)
DriverCalls(u, l) == SelectSeq(driverLog, LAMBDA d : d.unit = u /\ d.link = l)
Clicks(u, l) == SelectSeq(driverLog,
                    LAMBDA d : d.call = "click_button" /\ d.unit = u /\ d.link = l)
Probes(u, l) == SelectSeq(probeLog, LAMBDA q : q.unit = u /\ q.link = l)

UnitNumbers == 1..Min(MaxMessages, FetchLimit)
LinkNumbers == 1..MaxTokens
LinkPcs == {"probe", "open", "click"}

(***************************************************************************)
(* C1: at the end of every run, total_processed = total_success +          *)
(* total_errors.  The code never assigns total_processed after __init__.   *)
(***************************************************************************)
C1_CountersPartition ==
    pc = "done" => total_processed = total_success + total_errors

(***************************************************************************)
(* C2: every link that _process_url is started for gets exactly one        *)
(* save_record call (through _register_email_result) before the next link  *)
(* is started, whichever branch is taken; and the link loop is left only   *)
(* after the last link, so a failed link does not keep its siblings from   *)
(* being processed.  A KeyboardInterrupt is no branch of _process_url.     *)
(***************************************************************************)
C2_OneRecordPerLink ==
    LET R == LinkEntries
        P == probeLog
    IN  /\ Len(R) <= Len(P)
        /\ Len(P) <= Len(R) + 1
        /\ pc \in {"open", "click"} => Len(P) = Len(R) + 1
        /\ Len(P) = Len(R) + 1 =>
               pc \in {"open", "click"} \/ pending[1] = "KeyboardInterrupt"
        /\ \A k \in 1..Len(R) :
               /\ R[k].unit = P[k].unit
               /\ R[k].link = P[k].link
               /\ R[k].row.extracted_url = P[k].url
               /\ Len(Entries(R[k].unit, R[k].link)) = 1

C2_SiblingsProcessed ==
    [][/\ (pc \in LinkPcs /\ pc' \notin LinkPcs /\ pending' = pending)
            => linkIdx = Len(links)
       /\ (pc \in LinkPcs /\ Len(dbLog') = Len(dbLog) + 1 /\ linkIdx < Len(links))
            => (pc' = "probe" /\ linkIdx' = linkIdx + 1 /\ links' = links)]_vars

C2_EveryLinkRecordedOnce == []C2_OneRecordPerLink /\ C2_SiblingsProcessed

(* The first link of a unit failed to open, the second was opened and recorded. *)
C2_Witness ==
    \E u \in UnitNumbers :
        /\ Len(Entries(u, 1)) = 1
        /\ Len(Entries(u, 2)) = 1
        /\ Entries(u, 1)[1].row.detailed_error = <<"Failed to open URL", 0>>
        /\ Entries(u, 2)[1].row.final_result = "Partial success"

(***************************************************************************)
(* C3: a unit whose extracted link list is empty gets exactly one record;  *)
(* its status is the no-links status ("No links found"), never "Success"   *)
(* or "Error".                                                             *)
(***************************************************************************)
C3_NoLinksRecord ==
    \A i \in 1..Len(unitLog) :
        (~unitLog[i].raised /\ unitLog[i].links = <<>>) =>
            LET E == UnitEntries(unitLog[i].unit)
            IN  /\ Len(E) = 1
                /\ E[1].row.status = "No links found"
                /\ E[1].row.status \notin {"Success", "Error"}
                /\ E[1].row.final_result = "No links"
                /\ E[1].row.extracted_url = ""
                /\ E[1].row.process_id = unitLog[i].process_id

(* Two units were processed, the second without links, and its row is stored. *)
C3_Witness ==
    /\ Len(unitLog) = 2
    /\ unitLog[1].links # <<>>
    /\ ~unitLog[2].raised
    /\ unitLog[2].links = <<>>
    /\ Len(UnitEntries(unitLog[2].unit)) = 1
    /\ UnitEntries(unitLog[2].unit)[1].stored

(***************************************************************************)
(* C4: wrapped with max_retries = r, an operation that raises a retryable  *)
(* error on every invocation is invoked exactly r + 1 times, and then that *)
(* error leaves the wrapper.  In the code the first retry never happens:   *)
(* formatting the warning reads wrapper's unbound local delay.             *)
(***************************************************************************)
C4_RetriesExhausted ==
    (/\ he.state = "done"
     /\ \A i \in 1..Len(he.script) : he.script[i] \in RetryExceptions)
    => /\ he.result.calls = he.max_retries + 1
       /\ he.result.outcome = "raise"
       /\ he.result.exception = Raised(he.script[he.max_retries + 1], he.max_retries + 1)

(***************************************************************************)
(* C5: in _attempt_button_clicks the selectors are tried in list order;    *)
(* no click_button call follows a successful one, so when the k-th is the  *)
(* first to succeed exactly k calls are made; and the chain then reports   *)
(* success (the link's final_result is "Success").                         *)
(***************************************************************************)
C5_ChainShortCircuits ==
    \A u \in UnitNumbers, l \in LinkNumbers :
        LET C == Clicks(u, l)
        IN  /\ Len(C) <= Len(selectors_to_test)
            /\ \A j \in 1..Len(C) :
                   /\ C[j].arg = selectors_to_test[j]
                   /\ j < Len(C) => ~C[j].result
            /\ (Len(C) > 0 /\ C[Len(C)].result) =>
                   /\ Len(Entries(u, l)) = 1
                   /\ Entries(u, l)[1].row.final_result = "Success"
            /\ (Len(Entries(u, l)) = 1 /\ Entries(u, l)[1].row.final_result = "Success") =>
                   (Len(C) > 0 /\ C[Len(C)].result)

(* The third strategy was the first to succeed: three calls, then the record. *)
C5_Witness ==
    \E u \in UnitNumbers, l \in LinkNumbers :
        /\ Len(Clicks(u, l)) = 3
        /\ ~Clicks(u, l)[1].result
        /\ ~Clicks(u, l)[2].result
        /\ Clicks(u, l)[3].result
        /\ Len(Entries(u, l)) = 1
        /\ pc # "click"

(***************************************************************************)
(* C6: _cleanup_resources has run, once, whenever the run reaches its      *)
(* summary or its end: after normal completion, a failed preflight, a      *)
(* failed component initialisation, an exception out of the message loop,  *)
(* and a KeyboardInterrupt during the loop.                                *)
(***************************************************************************)
C6_CleanupOnEveryExit ==
    /\ pc \in {"summary", "done"} => cleanupLog = 1
    /\ pc \notin {"summary", "done"} => cleanupLog = 0

(* Interrupted in the middle of a unit: cleanup ran, the interrupt goes on. *)
C6_Witness ==
    /\ pc = "done"
    /\ pending[1] = "KeyboardInterrupt"
    /\ Len(probeLog) = Len(LinkEntries) + 1
    /\ cleanupLog = 1

(***************************************************************************)
(* C7: when the preflight check fails (insufficient resources; credentials *)
(* missing, user without "@", password shorter than 8) the run goes to its *)
(* end without any side effect: no mailbox connection, no automator, no    *)
(* probe, no driver call, no save_record call.                             *)
(***************************************************************************)
C7_CredentialsMalformed ==
    \/ cfg.EMAIL_USER = <<>>
    \/ cfg.EMAIL_PASSWORD = <<>>
    \/ cfg.IMAP_SERVER = <<>>
    \/ \A i \in 1..Len(cfg.EMAIL_USER) : cfg.EMAIL_USER[i] # "@"
    \/ Len(cfg.EMAIL_PASSWORD) < 8

C7_PreflightFailureHasNoEffects ==
    (C7_CredentialsMalformed \/ preflight_failure # "none") =>
        /\ pc \in {"start", "cleanup", "summary", "done"}
        /\ pc # "start" => preflight_failure # "none"
        /\ loginLog = 0
        /\ automator = "None"
        /\ driver = "None"
        /\ probeLog = <<>>
        /\ driverLog = <<>>
        /\ dbLog = <<>>
        /\ unitLog = <<>>

(* A run with a 7-character password, everything else in order, has ended. *)
C7_Witness ==
    /\ pc = "done"
    /\ preflight_failure = "credentials"
    /\ Len(cfg.EMAIL_PASSWORD) = 7
    /\ cfg.EMAIL_USER = <<"r", "@", "x">>
    /\ cfg.IMAP_SERVER # <<>>

(***************************************************************************)
(* C8: a link whose probe returned a status of 400 or more, or raised, is  *)
(* probed once, gets one record, with status InvalidURL, and no            *)
(* WebAutomator call.  The code records it with status "Error".            *)
(***************************************************************************)
C8_ProbeFailed(q) ==
    q.result[1] = "raises" \/ (q.result[1] = "status" /\ q.result[2] >= 400)

C8_InvalidUrlIsTerminal ==
    \A k \in 1..Len(probeLog) :
        LET q == probeLog[k]
        IN  (C8_ProbeFailed(q) /\ Len(Entries(q.unit, q.link)) > 0) =>
                /\ Len(Probes(q.unit, q.link)) = 1
                /\ Len(Entries(q.unit, q.link)) = 1
                /\ Entries(q.unit, q.link)[1].row.status = "InvalidURL"
                /\ DriverCalls(q.unit, q.link) = <<>>

(***************************************************************************)
(* C9: when open_link returns False for a link whose probe passed, the     *)
(* link's record has status "Error", total_errors grows by exactly one,    *)
(* total_success is unchanged, and the loop goes on with the unit's next   *)
(* link (or, after the last link, with the next message).                  *)
(***************************************************************************)
C9_OpenFailed ==
    /\ pc = "open"
    /\ Len(driverLog') = Len(driverLog) + 1
    /\ Last(driverLog').call = "open_link"
    /\ ~Last(driverLog').result

C9_OpenFailureIsOneError ==
    [][C9_OpenFailed =>
          /\ total_errors' = total_errors + 1
          /\ total_success' = total_success
          /\ Len(dbLog') = Len(dbLog) + 1
          /\ Last(dbLog').row.status = "Error"
          /\ Last(dbLog').row.extracted_url = links[linkIdx]
          /\ Last(dbLog').unit = message.number
          /\ Last(dbLog').link = linkIdx
          /\ pending' = pending
          /\ IF linkIdx < Len(links)
             THEN pc' = "probe" /\ linkIdx' = linkIdx + 1 /\ links' = links
             ELSE pc' = "fetch"]_vars

(* The browser failed to open the first of two links; the second is next. *)
C9_Witness ==
    /\ pc = "probe"
    /\ linkIdx = 2
    /\ Len(driverLog) = 1
    /\ driverLog[1].call = "open_link"
    /\ driverLog[1].reached
    /\ ~driverLog[1].result
    /\ Len(dbLog) = 1
    /\ dbLog[1].row.status = "Error"
    /\ total_errors = 1
    /\ total_success = 0

(***************************************************************************)
(* C10: a unit with the links https://a.test/x and https://bad.test; the   *)
(* first is reachable, opens, and the third selector (//button) is the     *)
(* first to be clicked; the probe of the second returns 404.  Then the run *)
(* writes two records, in that order: the first with status Success (the   *)
(* click result naming //button), the second with status InvalidURL, and   *)
(* no WebAutomator call is made for the second link.                       *)
(***************************************************************************)
C10_Scenario(u) ==
    /\ Len(Probes(u, 1)) = 1
    /\ Len(Probes(u, 2)) = 1
    /\ Probes(u, 1)[1].url = "https://a.test/x"
    /\ Probes(u, 1)[1].result = <<"status", 200>>
    /\ Probes(u, 2)[1].url = "https://bad.test"
    /\ Probes(u, 2)[1].result = <<"status", 404>>
    /\ Len(DriverCalls(u, 1)) = 4
    /\ DriverCalls(u, 1)[1].call = "open_link"
    /\ DriverCalls(u, 1)[1].result
    /\ Len(Clicks(u, 1)) = 3
    /\ Clicks(u, 1)[3].result
    /\ Len(Entries(u, 2)) > 0

C10_EndToEnd ==
    \A u \in UnitNumbers :
        C10_Scenario(u) =>
            LET E == UnitEntries(u)
            IN  /\ Len(E) = 2
                /\ E[1].link = 1
                /\ E[1].row.status = "Success"
                /\ last_click_result.observations = <<"Click successful on", "//button">>
                /\ E[2].link = 2
                /\ E[2].row.status = "InvalidURL"
                /\ DriverCalls(u, 2) = <<>>

(***************************************************************************)
(* C11: when the wrapped operation raises an error that is not in          *)
(* retry_exceptions, it is invoked exactly once, the wrapper does not      *)
(* sleep, and that same error leaves the wrapper, whatever max_retries is. *)
(***************************************************************************)
C11_NonRetryablePropagates ==
    (/\ he.state = "done"
     /\ he.script[1] \notin {"return", "RetryableError", "ConnectionError", "TimeoutError"})
    => /\ he.result.calls = 1
       /\ he.result.sleeps = <<>>
       /\ he.result.outcome = "raise"
       /\ he.result.exception = <<he.script[1], 1>>

(* A wrapper with three retries left has let a ValueError through. *)
C11_Witness ==
    /\ he.state = "done"
    /\ he.max_retries = 3
    /\ he.script[1] = "ValueError"
    /\ he.result.outcome = "raise"
    /\ he.result.exception[1] = "ValueError"

(***************************************************************************)
(* C12: within one call of a function wrapped with initial delay d, the    *)
(* sleep before the i-th retry lasts d * 2^(i-1).  The retries of a call   *)
(* are the leading retryable failures of the function, at most             *)
(* max_retries.  In the code no retry and no sleep ever happens.           *)
(***************************************************************************)
C12_Retries ==
    LET failing == {n \in 0..Len(he.script) :
                       \A i \in 1..n : he.script[i] \in RetryExceptions}
        longest == CHOOSE n \in failing : \A m \in failing : m <= n
    IN  IF longest <= he.max_retries THEN longest ELSE he.max_retries

C12_ExponentialBackoff ==
    he.state = "done" =>
        /\ Len(he.result.sleeps) = C12_Retries
        /\ \A i \in 1..Len(he.result.sleeps) :
              he.result.sleeps[i] = he.delay * 2 ^ (i - 1)

(***************************************************************************)
(* C13: with max_retries >= 1, when the operation fails with a retryable   *)
(* error on every invocation, the error that leaves the wrapper is the one *)
(* the operation raised on its last invocation.  In the code it is the     *)
(* UnboundLocalError of the wrapper itself.                                *)
(***************************************************************************)
C13_LastErrorPropagated ==
    (/\ he.state = "done"
     /\ he.max_retries >= 1
     /\ \A i \in 1..Len(he.script) : he.script[i] \in RetryExceptions)
    => /\ he.result.outcome = "raise"
       /\ he.result.calls >= 1
       /\ he.result.exception[1] = he.script[he.result.calls]
       /\ he.result.exception[1] \in RetryExceptions

(***************************************************************************)
(* C14: a save_record call whose INSERT fails with a storage error on the  *)
(* first attempt and would succeed on a later one is attempted again, up   *)
(* to the attempt that succeeds, and then its row is in rpa_records, once. *)
(* In the code the failure is raised as DatabaseError, which is not        *)
(* retried, and the row is lost.                                           *)
(***************************************************************************)
C14_FirstReturn(script) ==
    CHOOSE i \in 1..Len(script) :
        script[i] = "return" /\ \A j \in 1..(i - 1) : script[j] # "return"

C14_RetriedWriteStoresOneRow ==
    \A k \in 1..Len(dbLog) :
        LET e == dbLog[k]
        IN  (/\ e.script[1] = "DatabaseError"
             /\ \E i \in 2..Len(e.script) : e.script[i] = "return")
            => /\ e.attempts = C14_FirstReturn(e.script)
               /\ e.stored
               /\ \E n \in 1..Len(rpa_records) : rpa_records[n] = e.row

(***************************************************************************)
(* C15: when a record of a unit cannot be stored, the run goes on: the     *)
(* exception does not leave _register_email_result, the link is counted    *)
(* (total_success or total_errors grows by one), the unit's next link is   *)
(* taken, and after the last link the message loop takes the next message. *)
(***************************************************************************)
C15_RecordLost ==
    /\ Len(dbLog') = Len(dbLog) + 1
    /\ ~dbLog'[Len(dbLog')].stored
    /\ dbLog'[Len(dbLog')].unit # 0

C15_LostRecordIsSurvivable ==
    [][C15_RecordLost =>
          /\ pending' = <<"none", 0>>
          /\ fetched' = fetched
          /\ cleanupLog' = 0
          /\ IF dbLog'[Len(dbLog')].link # 0
             THEN /\ total_success' + total_errors' = total_success + total_errors + 1
                  /\ IF linkIdx < Len(links)
                     THEN pc' = "probe" /\ linkIdx' = linkIdx + 1 /\ links' = links
                     ELSE pc' = "fetch"
             ELSE pc' = "fetch"]_vars

(* The record of the first link of the first unit was lost; its second link
   and the second unit were processed all the same. *)
C15_Witness ==
    /\ Len(dbLog) >= 3
    /\ dbLog[1].unit = 1
    /\ dbLog[1].link = 1
    /\ ~dbLog[1].stored
    /\ dbLog[2].unit = 1
    /\ dbLog[2].link = 2
    /\ dbLog[3].unit = 2
    /\ Len(unitLog) = 2
    /\ total_errors >= 2

(***************************************************************************)
(* C16: rpa_records only grows, by appending: a save_record call that      *)
(* succeeds adds its row at the end, one that fails adds nothing, and no   *)
(* step changes or removes a row already there; so a row for a URL stays   *)
(* when another row for the same URL, under another process ID, is added.  *)
(***************************************************************************)
C16_AppendOnly ==
    [][/\ Len(rpa_records') >= Len(rpa_records)
       /\ SubSeq(rpa_records', 1, Len(rpa_records)) = rpa_records
       /\ IF Len(dbLog') = Len(dbLog) + 1 /\ dbLog'[Len(dbLog')].stored
          THEN rpa_records' = rpa_records \o <<dbLog'[Len(dbLog')].row>>
          ELSE rpa_records' = rpa_records]_vars

(* The row of an earlier run for https://a.test/x and a row of this run
   for the same URL, under another process ID, are both in the table. *)
C16_Witness ==
    /\ Len(rpa_records) >= 2
    /\ rpa_records[1].extracted_url = "https://a.test/x"
    /\ rpa_records[2].extracted_url = "https://a.test/x"
    /\ rpa_records[1].process_id # rpa_records[2].process_id
    /\ Len(dbLog) >= 1
    /\ dbLog[1].stored
    /\ dbLog[1].row = rpa_records[2]

(***************************************************************************)
(* C17: one process ID is generated per unit, when _process_single_email   *)
(* starts, before the links are extracted and before any record of the     *)
(* unit; every record of the unit carries it; and no record of another     *)
(* unit, or of the run's general failure, carries an ID generated for this *)
(* unit.  The last part fails when two generated IDs coincide.             *)
(***************************************************************************)
C17_OneUnitEntry ==
    \A i, j \in 1..Len(unitLog) : unitLog[i].unit = unitLog[j].unit => i = j

C17_RecordsCarryUnitId ==
    \A k \in 1..Len(dbLog) :
        dbLog[k].unit # 0 =>
            \E j \in 1..Len(unitLog) :
                /\ unitLog[j].unit = dbLog[k].unit
                /\ unitLog[j].process_id = dbLog[k].row.process_id

C17_NoIdOfAnotherUnit ==
    \A k \in 1..Len(dbLog) : \A j \in 1..Len(unitLog) :
        unitLog[j].unit # dbLog[k].unit =>
            unitLog[j].process_id # dbLog[k].row.process_id

C17_ProcessIdPerUnit ==
    /\ C17_OneUnitEntry
    /\ C17_RecordsCarryUnitId
    /\ C17_NoIdOfAnotherUnit

(***************************************************************************)
(* C18: get_next_process_id never returns a value it returned before: the  *)
(* IDs generated in a run, one per unit, are pairwise distinct.  The code  *)
(* builds the ID from the clock's second and eight random hex digits, and  *)
(* two calls within one second may draw the same digits.                   *)
(***************************************************************************)
C18_IdsNeverRepeat ==
    \A i, j \in 1..Len(unitLog) :
        i # j => unitLog[i].process_id # unitLog[j].process_id

(***************************************************************************)
(* C19: when click_button fails for every selector of selectors_to_test,   *)
(* the click result is success = false with observations "no clickable     *)
(* element found", no exception leaves _attempt_button_clicks, and         *)
(* total_errors is not incremented for the link.  In the code the          *)
(* observations are those of the last failed click_button call.            *)
(***************************************************************************)
C19_ChainExhausted ==
    /\ pc = "click"
    /\ selIdx = Len(selectors_to_test)
    /\ Len(driverLog') = Len(driverLog) + 1
    /\ driverLog'[Len(driverLog')].call = "click_button"
    /\ ~driverLog'[Len(driverLog')].result

C19_NoClickableElement ==
    [][C19_ChainExhausted =>
          /\ last_click_result' =
                 [success |-> FALSE, observations |-> <<"no clickable element found", "">>]
          /\ pending' = <<"none", 0>>
          /\ total_errors' = total_errors
          /\ Len(dbLog') = Len(dbLog) + 1
          /\ dbLog'[Len(dbLog')].row.status # "Error"]_vars

(***************************************************************************)
(* C20: every row a run stores in rpa_records has one of the statuses      *)
(* Success, PartialSuccess, NoLinks (written "No links found"),            *)
(* InvalidURL, Error.                                                      *)
(***************************************************************************)
C20_StatusInSet ==
    /\ \A n \in 1..Len(rpa_records) :
          rpa_records[n].status \in
              {"Success", "PartialSuccess", "No links found", "InvalidURL", "Error"}
    /\ \A k \in 1..Len(dbLog) :
          dbLog[k].row.status \in
              {"Success", "PartialSuccess", "No links found", "InvalidURL", "Error"}

(* A unit with two links has stored a Success row and an Error row. *)
C20_Witness ==
    /\ Len(dbLog) = 2
    /\ dbLog[1].stored
    /\ dbLog[2].stored
    /\ dbLog[1].row.status = "Success"
    /\ dbLog[2].row.status = "Error"
    /\ Len(rpa_records) >= 2
    /\ rpa_records[Len(rpa_records)] = dbLog[2].row

(***************************************************************************)
(* C21: for a link the browser opened, the record's status is Success      *)
(* exactly when a click_button call succeeded; when the page opened and no *)
(* click succeeded, the status is PartialSuccess.  The code writes status  *)
(* "Success" in both cases and tells them apart in final_result only.      *)
(***************************************************************************)
C21_Opened(u, l) ==
    /\ Len(DriverCalls(u, l)) > 0
    /\ DriverCalls(u, l)[1].call = "open_link"
    /\ DriverCalls(u, l)[1].result
    /\ Len(Entries(u, l)) > 0

C21_StatusClassifiesActivation ==
    \A u \in UnitNumbers : \A l \in LinkNumbers :
        C21_Opened(u, l) =>
            LET activated == \E i \in 1..Len(Clicks(u, l)) : Clicks(u, l)[i].result
                status == Entries(u, l)[1].row.status
            IN  /\ (status = "Success") <=> activated
                /\ ~activated => status = "PartialSuccess"

(***************************************************************************)
(* C22: the rows are stored in the order in which the units and their      *)
(* links are visited, one save_record call and at most one row per step:   *)
(* the save_record calls of the units come in (unit, link) order, and      *)
(* rpa_records holds the rows of the calls that succeeded, in call order.  *)
(***************************************************************************)
C22_StoredRows ==
    LET kept == SelectSeq(dbLog, LAMBDA e : e.stored)
    IN  [i \in 1..Len(kept) |-> kept[i].row]

C22_InVisitOrder ==
    /\ \A i, j \in 1..Len(dbLog) :
          (i < j /\ dbLog[i].unit # 0 /\ dbLog[j].unit # 0) =>
              \/ dbLog[i].unit < dbLog[j].unit
              \/ dbLog[i].unit = dbLog[j].unit /\ dbLog[i].link < dbLog[j].link
    /\ \A i \in 1..Len(dbLog) : dbLog[i].unit = 0 => i = Len(dbLog)
    /\ rpa_records = C22_StoredRows

C22_OneAtATime ==
    [][/\ Len(dbLog') <= Len(dbLog) + 1
       /\ Len(rpa_records') <= Len(rpa_records) + 1
       /\ Len(dbLog') = Len(dbLog) + 1 =>
             /\ dbLog'[Len(dbLog')].unit = message.number
             /\ dbLog'[Len(dbLog')].link = linkIdx]_vars

C22_PersistedInVisitOrder == []C22_InVisitOrder /\ C22_OneAtATime

(* Two links of the first unit and then the second unit, all three stored. *)
C22_Witness ==
    /\ Len(dbLog) = 3
    /\ Len(rpa_records) = 3
    /\ dbLog[1].unit = 1 /\ dbLog[1].link = 1
    /\ dbLog[2].unit = 1 /\ dbLog[2].link = 2
    /\ dbLog[3].unit = 2
    /\ rpa_records[1] # rpa_records[2]
    /\ rpa_records[3].status = "No links found"

(***************************************************************************)
(* C23: every call of process_emails_automatically ends with exactly one   *)
(* summary: after a preflight failure, after a mailbox failure, after any  *)
(* number of failed links; and _show_summary raises nothing, also when     *)
(* total_processed is 0 (the exception in flight, if any, is the one that  *)
(* was in flight before).                                                  *)
(***************************************************************************)
C23_SummaryCount ==
    /\ pc = "done" => summaryLog = 1
    /\ pc # "done" => summaryLog = 0

C23_SummaryReturns ==
    [][pc = "summary" =>
          /\ summaryLog' = summaryLog + 1
          /\ pc' = "done"
          /\ pending' = pending
          /\ pending \in {<<"none", 0>>, <<"KeyboardInterrupt", 0>>}]_vars

C23_SummaryOnEveryRun == []C23_SummaryCount /\ C23_SummaryReturns

(* A run with two failed links and total_processed = 0 has shown its summary. *)
C23_Witness ==
    /\ pc = "done"
    /\ summaryLog = 1
    /\ total_processed = 0
    /\ total_errors = 2
    /\ pending = <<"none", 0>>

(***************************************************************************)
(* C24: a run goes through preflight, component initialisation, the        *)
(* message loop, cleanup and summary in this order and never back: units,  *)
(* probes and driver calls happen only after preflight passed and the      *)
(* automator was created; the summary comes after the cleanup; and once    *)
(* the cleanup has run no unit, link or record is processed any more.      *)
(***************************************************************************)
C24_Rank(p) ==
    CASE p = "start" -> 0
      [] p = "components" -> 1
      [] p \in {"login", "fetch", "email", "probe", "open", "click"} -> 2
      [] p = "except" -> 3
      [] p = "cleanup" -> 4
      [] p = "summary" -> 5
      [] OTHER -> 6

C24_Processing ==
    loginLog > 0 \/ unitLog # <<>> \/ probeLog # <<>> \/ driverLog # <<>>

C24_StateOrder ==
    /\ C24_Processing => preflight_failure = "none" /\ automator = "WebAutomator"
    /\ C24_Rank(pc) = 2 => preflight_failure = "none" /\ automator = "WebAutomator"
    /\ C24_Rank(pc) <= 4 => cleanupLog = 0 /\ summaryLog = 0
    /\ summaryLog > 0 => cleanupLog = 1

C24_NeverBack ==
    [][/\ C24_Rank(pc') >= C24_Rank(pc)
       /\ C24_Rank(pc) >= 4 =>
             /\ unitLog' = unitLog
             /\ probeLog' = probeLog
             /\ driverLog' = driverLog
             /\ dbLog' = dbLog
             /\ fetched' = fetched
             /\ loginLog' = loginLog]_vars

C24_RunStateMachine == []C24_StateOrder /\ C24_NeverBack

(* A run that processed two units and a link has been cleaned up and summarised. *)
C24_Witness ==
    /\ pc = "done"
    /\ Len(unitLog) = 2
    /\ Len(probeLog) >= 1
    /\ cleanupLog = 1
    /\ summaryLog = 1
    /\ pending = <<"none", 0>>

(***************************************************************************)
(* C25: within one call of process_emails_automatically the preflight      *)
(* check, the component initialisation and the mailbox read are executed   *)
(* once: neither the handle_errors around process_emails_automatically nor *)
(* the one around _read_and_process_emails starts them again, whatever     *)
(* fails inside.                                                           *)
(***************************************************************************)
C25_OnePass ==
    /\ run_attempt = 0
    /\ read_attempt = 0
    /\ loginLog <= 1

C25_NoRestart ==
    [][/\ pc' = "start" => pc = "start"
       /\ pc' = "components" => pc \in {"start", "components"}
       /\ pc' = "login" => pc \in {"components", "login"}]_vars

C25_PipelineRunsOnce == []C25_OnePass /\ C25_NoRestart

(* The mailbox read failed after a unit was processed; the run ended with
   one login and the general failure on record. *)
C25_Witness ==
    /\ pc = "done"
    /\ loginLog = 1
    /\ Len(unitLog) >= 1
    /\ Len(dbLog) >= 1
    /\ dbLog[Len(dbLog)].row.final_result = "General failure"
    /\ dbLog[Len(dbLog)].unit = 0

(***************************************************************************)
(* C26: an error raised while a unit or one of its links is handled ends   *)
(* in a record of that unit and the message loop goes on; and a run is     *)
(* abandoned (it ends without having gone through the mailbox, other than  *)
(* by an interrupt) only when the preflight check failed.  In the code a   *)
(* failure of _initialize_components or of the mailbox abandons it too.    *)
(***************************************************************************)
C26_UnitErrorsRecorded ==
    \A j \in 1..Len(unitLog) :
        unitLog[j].raised =>
            /\ Len(UnitEntries(unitLog[j].unit)) = 1
            /\ UnitEntries(unitLog[j].unit)[1].row.status = "Error"

C26_Abandoned ==
    /\ pc = "done"
    /\ pending = <<"none", 0>>
    /\ \/ preflight_failure # "none"
       \/ \E k \in 1..Len(dbLog) : dbLog[k].unit = 0

C26_OnlyPreflightAborts ==
    /\ C26_UnitErrorsRecorded
    /\ pc \in {"fetch", "email", "probe", "open", "click"} => pending = <<"none", 0>>
    /\ C26_Abandoned => preflight_failure # "none"

(***************************************************************************)
(* C27: a run makes at most one record per unit and URL, and exactly one   *)
(* for a URL among the links of a unit that has been gone through, also    *)
(* when the URL occurs twice in the unit's links.  The code records every  *)
(* occurrence.                                                             *)
(***************************************************************************)
C27_RecordsOf(u, url) ==
    SelectSeq(dbLog, LAMBDA e : e.unit = u /\ e.row.extracted_url = url)

C27_OneRecordPerUnitAndUrl ==
    \A j \in 1..Len(unitLog) : \A url \in Urls :
        LET u == unitLog[j].unit
        IN  /\ Len(C27_RecordsOf(u, url)) <= 1
            /\ (/\ message.number # u
                /\ \E i \in 1..Len(unitLog[j].links) : unitLog[j].links[i] = url)
               => Len(C27_RecordsOf(u, url)) = 1

C29_SucceedsAt(k) ==
    /\ k <= Len(he.script)
    /\ he.script[k] = "return"
    /\ \A i \in 1..(k - 1) : he.script[i] \in {"RetryableError", "ConnectionError", "TimeoutError"}

C29_EventualSuccessReturns ==
    he.state = "done" =>
        \A k \in 1..(he.max_retries + 1) :
            C29_SucceedsAt(k) =>
                /\ he.result.outcome = "return"
                /\ he.result.calls = k
                /\ Len(he.result.sleeps) = k - 1

(***************************************************************************)
(* C30: the selectors are tried in a fixed order: action-word buttons,     *)
(* action-word links, any button, hash/javascript anchors, generic form    *)
(* controls, and last BUTTON_SELECTOR.  The code has no strategy for form  *)
(* controls: BUTTON_SELECTOR is the fifth and last selector tried.         *)
(***************************************************************************)
C30_Order ==
    <<"//button[action word]", "//a[action word]", "//button",
      "//a[hash or javascript href]", "generic form controls", "BUTTON_SELECTOR">>

C30_FixedPriorityOrder ==
    \A u \in UnitNumbers : \A l \in LinkNumbers :
        /\ Len(Clicks(u, l)) <= Len(C30_Order)
        /\ \A i \in 1..Len(Clicks(u, l)) :
              /\ i <= Len(C30_Order)
              /\ Clicks(u, l)[i].arg = C30_Order[i]

(***************************************************************************)
(* C31: within one run no unit and no link is handled twice.  Every        *)
(* message that passed the filter is given to _process_single_email once,  *)
(* every element of its link list is given to _process_url once, and for   *)
(* one link visit the driver is asked at most once to open the page and at *)
(* most once to click each selector of the chain, whatever fails on the    *)
(* way.                                                                    *)
(***************************************************************************)
C31_UnitsOnce ==
    /\ \A i, j \in 1..Len(unitLog) : unitLog[i].unit = unitLog[j].unit => i = j
    /\ pc = "email" => \A j \in 1..Len(unitLog) : unitLog[j].unit # message.number
    /\ pc \in LinkPcs => \E j \in 1..Len(unitLog) : unitLog[j].unit = message.number

C31_Visited(u, l) ==
    IF message.number = u /\ pc \in LinkPcs
    THEN l < linkIdx \/ (l = linkIdx /\ pc # "probe")
    ELSE message.number # u

C31_LinksOnce ==
    \A j \in 1..Len(unitLog) : \A l \in LinkNumbers :
        LET u == unitLog[j].unit
            opens == SelectSeq(DriverCalls(u, l), LAMBDA d : d.call = "open_link")
        IN  /\ Len(Probes(u, l)) <= 1
            /\ Len(opens) <= 1
            /\ \A s \in 1..Len(selectors_to_test) :
                   Len(SelectSeq(Clicks(u, l),
                                 LAMBDA d : d.arg = selectors_to_test[s])) <= 1
            /\ Len(Entries(u, l)) <= 1
            /\ Len(DriverCalls(u, l)) > 0 => Len(Probes(u, l)) = 1
            /\ l \in 1..Len(unitLog[j].links) /\ C31_Visited(u, l)
                   => Len(Probes(u, l)) = 1
            /\ l \notin 1..Len(unitLog[j].links) => Len(Probes(u, l)) = 0

C31_NothingTwice == C31_UnitsOnce /\ C31_LinksOnce

(* Both links of a unit visited: the first opened, its whole chain failed and
   it was recorded; the second failed at its probe and was recorded. *)
C31_Witness ==
    /\ Len(unitLog) = 1
    /\ Len(unitLog[1].links) = 2
    /\ Len(Clicks(unitLog[1].unit, 1)) = Len(selectors_to_test)
    /\ \A k \in 1..Len(Clicks(unitLog[1].unit, 1)) : ~Clicks(unitLog[1].unit, 1)[k].result
    /\ Len(Entries(unitLog[1].unit, 1)) = 1
    /\ Len(Probes(unitLog[1].unit, 2)) = 1
    /\ ~Reachable(Probes(unitLog[1].unit, 2)[1].result)
    /\ Len(Entries(unitLog[1].unit, 2)) = 1
    /\ pc = "fetch"

(***************************************************************************)
(* C32: when connecting to the mailbox or iterating it fails, the run      *)
(* makes exactly one general-failure record (sender SYSTEM, status Error)  *)
(* under a process ID generated for it, leaves total_success, total_errors *)
(* and error_details as they are, keeps the records of the units already   *)
(* processed, processes no further unit, and then goes through cleanup and *)
(* summary.                                                                *)
(***************************************************************************)
C32_General == SelectSeq(dbLog, LAMBDA e : e.row.sender = <<"SYSTEM">>)

C32_MailboxFails ==
    pending'[1] = "EmailConnectionError" /\ pending[1] # "EmailConnectionError"
    => /\ pc \in {"login", "fetch"}
       /\ pc' = "except"
       /\ UNCHANGED <<total_success, total_errors, error_details, dbLog,
                      rpa_records, unitLog>>

C32_Registers ==
    pc = "except" /\ pending[1] = "EmailConnectionError"
    => /\ pc' = "cleanup"
       /\ Len(dbLog') = Len(dbLog) + 1
       /\ SubSeq(dbLog', 1, Len(dbLog)) = dbLog
       /\ Last(dbLog').unit = 0
       /\ Last(dbLog').row.sender = <<"SYSTEM">>
       /\ Last(dbLog').row.status = "Error"
       /\ Last(dbLog').row.final_result = "General failure"
       /\ \E now \in 0..MaxClock, uuid \in UuidPrefixes :
              Last(dbLog').row.process_id = get_next_process_id(now, uuid)
       /\ SubSeq(rpa_records', 1, Len(rpa_records)) = rpa_records
       /\ Len(rpa_records') = Len(rpa_records) + (IF Last(dbLog').stored THEN 1 ELSE 0)
       /\ UNCHANGED <<total_success, total_errors, error_details, unitLog,
                      probeLog, driverLog>>

C32_AfterFailure ==
    /\ Len(C32_General) <= 1
    /\ pc = "except" /\ loginLog >= 1 => pending[1] = "EmailConnectionError"
    /\ Len(C32_General) = 1
         => /\ Last(dbLog).row.sender = <<"SYSTEM">>
            /\ pc \in {"cleanup", "summary", "done"}
            /\ pc = "summary" => cleanupLog = 1
            /\ pc = "done" => cleanupLog = 1 /\ summaryLog = 1

C32_MailboxFailureIsOneGeneralRecord ==
    []C32_AfterFailure /\ [][C32_MailboxFails /\ C32_Registers]_vars

(* The iteration failed after the first unit had been processed with one
   link error: the unit's record is kept, the general record follows it and
   is stored, the counters show the unit's link only, the run has ended. *)
C32_Witness ==
    /\ pc = "done"
    /\ loginLog = 1
    /\ fetched = 1
    /\ Len(unitLog) = 1
    /\ Len(dbLog) = 2
    /\ dbLog[1].unit = 1 /\ dbLog[1].stored
    /\ dbLog[2].row.sender = <<"SYSTEM">> /\ dbLog[2].stored
    /\ Len(rpa_records) = 2
    /\ total_errors = 1 /\ total_success = 0 /\ error_details = <<>>
    /\ cleanupLog = 1 /\ summaryLog = 1

(***************************************************************************)
(* C33: every completed link visit has added one to exactly one of         *)
(* total_success and total_errors, a unit without links has changed        *)
(* neither, and a unit whose processing raised has added one to            *)
(* total_errors; so at the end of a run total_success + total_errors is    *)
(* the number of links given to _process_url plus the number of units      *)
(* whose processing raised.                                                *)
(***************************************************************************)
C33_Raised == Len(SelectSeq(unitLog, LAMBDA e : e.raised))

RECURSIVE C33_LinksOf(_)
C33_LinksOf(j) == IF j = 0 THEN 0 ELSE Len(unitLog[j].links) + C33_LinksOf(j - 1)

C33_Counted ==
    /\ total_success =
           Len(SelectSeq(LinkEntries, LAMBDA e : e.row.status = UrlOpenedStatus))
    /\ total_errors =
           Len(SelectSeq(LinkEntries, LAMBDA e : e.row.status = UrlErrorStatus))
           + C33_Raised
    /\ total_success + total_errors = Len(LinkEntries) + C33_Raised
    /\ pc = "done" /\ pending = NoException
         => /\ Len(probeLog) = C33_LinksOf(Len(unitLog))
            /\ total_success + total_errors = Len(probeLog) + C33_Raised

C33_EachVisitCountsOnce ==
    /\ Len(LinkEntries') = Len(LinkEntries) + 1
         => \/ total_success' = total_success + 1 /\ total_errors' = total_errors
            \/ total_errors' = total_errors + 1 /\ total_success' = total_success
    /\ pc = "email" /\ Len(unitLog') = Len(unitLog) + 1
         => IF Last(unitLog').raised
            THEN total_errors' = total_errors + 1 /\ total_success' = total_success
            ELSE UNCHANGED <<total_success, total_errors>>
    /\ Len(LinkEntries') = Len(LinkEntries) /\ pc # "email"
         => UNCHANGED <<total_success, total_errors>>

C33_CountersCountVisits == []C33_Counted /\ [][C33_EachVisitCountsOnce]_vars

(* A run ended after a unit with two links, one opened and one failed. *)
C33_Witness ==
    /\ pc = "done"
    /\ pending = NoException
    /\ Len(unitLog) = 1
    /\ Len(unitLog[1].links) = 2
    /\ Len(probeLog) = 2
    /\ total_success = 1
    /\ total_errors = 1

(***************************************************************************)
(* C34: error_details gains an entry only when the except clause of        *)
(* _process_single_email catches an exception; a failure of a link adds    *)
(* one to total_errors and no entry; so the length of error_details never  *)
(* exceeds total_errors, and a run whose only failures are failures of     *)
(* links generates no error report.                                        *)
(***************************************************************************)
C34_UnitFailures == SelectSeq(unitLog, LAMBDA e : e.raised)

C34_Details ==
    /\ Len(error_details) = Len(C34_UnitFailures)
    /\ \A k \in 1..Len(error_details) : error_details[k] = C34_UnitFailures[k].unit
    /\ Len(error_details) <= total_errors
    /\ Len(reportLog) <= summaryLog
    /\ summaryLog = 1 =>
          reportLog = IF Len(C34_UnitFailures) = 0 THEN <<>>
                      ELSE <<[total |-> total_errors, entries |-> error_details]>>

C34_EntryOnlyFromUnitHandler ==
    /\ error_details' # error_details
         => /\ pc = "email"
            /\ Len(unitLog') = Len(unitLog) + 1
            /\ Last(unitLog').raised
            /\ error_details' = Append(error_details, message.number)
            /\ total_errors' = total_errors + 1
    /\ Len(LinkEntries') = Len(LinkEntries) + 1
           /\ Last(LinkEntries').row.status = UrlErrorStatus
         => /\ total_errors' = total_errors + 1
            /\ error_details' = error_details

C35_Below400(q) == q.result[1] = "status" /\ q.result[2] < 400

C35_Opens(u, l) == SelectSeq(DriverCalls(u, l), LAMBDA d : d.call = "open_link")

C35_OpenedIffBelow400 ==
    /\ \A k \in 1..Len(probeLog) :
          LET q == probeLog[k]
          IN  IF C35_Below400(q)
              THEN \/ Len(C35_Opens(q.unit, q.link)) = 1
                         /\ C35_Opens(q.unit, q.link)[1].arg = q.url
                   \/ pc = "open" /\ message.number = q.unit /\ linkIdx = q.link
                         /\ k = Len(probeLog)
              ELSE Len(DriverCalls(q.unit, q.link)) = 0
    /\ \A k \in 1..Len(driverLog) :
          Len(Probes(driverLog[k].unit, driverLog[k].link)) = 1
             /\ C35_Below400(Probes(driverLog[k].unit, driverLog[k].link)[1])
    /\ pc = "open" => C35_Below400(Last(probeLog))

(* A redirect (301) was opened by the automator; the next link answered 400
   and was recorded without a call to the automator. *)
C35_Witness ==
    /\ Len(probeLog) = 2
    /\ probeLog[1].result = <<"status", 301>>
    /\ Len(C35_Opens(probeLog[1].unit, 1)) = 1
    /\ probeLog[2].result = <<"status", 400>>
    /\ Len(DriverCalls(probeLog[2].unit, 2)) = 0
    /\ Len(LinkEntries) = 2

(***************************************************************************)
(* C36: a fetched message becomes a processing unit only if the sender     *)
(* filter is set, not empty, and occurs in the sender of the message, the  *)
(* case of letters ignored.  When the filter is unset or empty no message  *)
(* is processed, whatever the mailbox contains, and no record of a message *)
(* or of a link is written: the one record such a run can write is the     *)
(* general-failure record (sender SYSTEM) of a run whose components or     *)
(* mailbox failed.                                                         *)
(***************************************************************************)
C36_Fold(c) == IF c = "N" THEN "n" ELSE IF c = "F" THEN "f" ELSE c

C36_Occurs(filter, sender) ==
    /\ Len(filter) > 0
    /\ \E i \in 1..Len(sender) :
          /\ i + Len(filter) - 1 <= Len(sender)
          /\ \A k \in 1..Len(filter) : C36_Fold(filter[k]) = C36_Fold(sender[i + k - 1])

C36_UnitsPassFilter ==
    /\ message # NoMessage => C36_Occurs(cfg.SENDER_FILTER, message.from_)
    /\ \A k \in 1..Len(dbLog) :
          dbLog[k].unit # 0 => C36_Occurs(cfg.SENDER_FILTER, dbLog[k].row.sender)
    /\ Len(unitLog) <= fetched

C36_NoUnitWithoutFilter ==
    Len(cfg.SENDER_FILTER) = 0
    => /\ unitLog = <<>>
       /\ message = NoMessage
       /\ probeLog = <<>>
       /\ driverLog = <<>>
       /\ total_success = 0 /\ total_errors = 0
       /\ Len(dbLog) <= 1
       /\ \A k \in 1..Len(dbLog) :
             /\ dbLog[k].unit = 0
             /\ dbLog[k].row.sender = <<"SYSTEM">>
             /\ dbLog[k].row.final_result = "General failure"

C36_BecomesUnit ==
    pc = "fetch" /\ pc' = "email"
    => /\ fetched' = fetched + 1
       /\ message'.number = fetched'
       /\ C36_Occurs(cfg.SENDER_FILTER, message'.from_)

C36_Always == C36_UnitsPassFilter /\ C36_NoUnitWithoutFilter

C36_FilterSelectsUnits == []C36_Always /\ [][C36_BecomesUnit]_vars

(* C36 as it was made, for the runs that got as far as the mailbox: without
   a filter no record at all is written.  A run without a filter whose
   mailbox connection or iteration fails writes the general-failure record. *)
C36_NoRecordWithoutFilter ==
    /\ C36_UnitsPassFilter
    /\ Len(cfg.SENDER_FILTER) = 0 /\ loginLog >= 1 => unitLog = <<>> /\ dbLog = <<>>

(* A run without a filter went through a mailbox of two messages and ended
   without a unit and without a record. *)
C36_Witness ==
    /\ Len(cfg.SENDER_FILTER) = 0
    /\ fetched = 2
    /\ pc = "done"
    /\ pending = NoException
    /\ unitLog = <<>>
    /\ dbLog = <<>>

(***************************************************************************)
(* C37: every click_button call replaces the click result: after the call, *)
(* on each of its return paths, get_last_click_result().success is the     *)
(* boolean the call returned.  So after a chain that failed throughout the *)
(* result is that of the last strategy tried, and after a chain that       *)
(* succeeded it names the strategy that succeeded.                         *)
(***************************************************************************)
C37_ClickCalls == SelectSeq(driverLog, LAMBDA d : d.call = "click_button")

C37_LastCallShown ==
    IF C37_ClickCalls = <<>>
    THEN last_click_result = NewClickResult
    ELSE /\ last_click_result.success = Last(C37_ClickCalls).result
         /\ Last(C37_ClickCalls).result
              => last_click_result.observations =
                     <<"Click successful on", Last(C37_ClickCalls).arg>>
         /\ ~Last(C37_ClickCalls).result
              => last_click_result.observations[1] \in
                     {"No browser open", "Invalid selector", "Click error"}

C37_Superseded ==
    /\ Len(C37_ClickCalls') = Len(C37_ClickCalls) + 1
         => /\ pc = "click"
            /\ Last(driverLog').arg = selectors_to_test[selIdx]
            /\ last_click_result'.success = Last(driverLog').result
    /\ Len(C37_ClickCalls') = Len(C37_ClickCalls)
         => last_click_result' = last_click_result
    /\ pc = "click" /\ pc' # "click" /\ Len(dbLog') = Len(dbLog) + 1
         => IF Last(dbLog').row.final_result = "Success"
            THEN last_click_result'.observations =
                     <<"Click successful on", selectors_to_test[selIdx]>>
            ELSE /\ selIdx = Len(selectors_to_test)
                 /\ ~last_click_result'.success

C37_ClickResultSuperseded == []C37_LastCallShown /\ [][C37_Superseded]_vars

(* The chain of the first link succeeded at its third strategy; the chain of
   the second link failed throughout, and the click result now shows a failure. *)
C37_Witness ==
    /\ Len(unitLog) = 1
    /\ Len(Clicks(unitLog[1].unit, 1)) = 3
    /\ Clicks(unitLog[1].unit, 1)[3].result
    /\ Len(Clicks(unitLog[1].unit, 2)) = Len(selectors_to_test)
    /\ ~Last(Clicks(unitLog[1].unit, 2)).result
    /\ ~last_click_result.success
    /\ last_click_result.observations[1] = "Click error"
    /\ Len(LinkEntries) = 2

====
